---- MODULE Spec2Model ----
(***************************************************************************)
(* imgrid: a numbered coordinate grid drawn over an image (AddGrid) and    *)
(* the conversion between cell numbers and pixel coordinates (CellToPixel, *)
(* PixelToCell).  The module holds two state machines over one set of      *)
(* variables:                                                              *)
(*   Spec        one run of AddGrid over an image and a Config;            *)
(*   MapperSpec  calls of CellToPixel and PixelToCell, and a round trip.   *)
(* Go's int is modelled by the mathematical integers: every value of the   *)
(* bounded inputs is far from the width of int.  Go's / and % truncate     *)
(* towards zero (GoDiv, GoMod); a division by zero panics.                 *)
(***************************************************************************)
EXTENDS Integers, Sequences, FiniteSets, TLC

\* ------------------------------------------------------------------ bounds
MaxWidth == 4
MaxHeight == 4
MaxCellSize == 5
MaxLineWidth == 2
MaxNumberScale == 2
MaxCellNumber == 9
MaxCoord == 6

\* ------------------------------------------------------------- Go integers
Abs(a) == IF a < 0 THEN -a ELSE a

\* Go's integer quotient, truncated towards zero (b # 0).
GoDiv(a, b) ==
  IF (a >= 0) = (b > 0) THEN Abs(a) \div Abs(b) ELSE -(Abs(a) \div Abs(b))

\* Go's integer remainder: a - (a/b)*b, with the sign of the dividend (b # 0).
GoMod(a, b) == a - GoDiv(a, b) * b

\* fmt.Sprintf("%d", number) for number >= 0: the decimal digits, most
\* significant first.
RECURSIVE Sprintf_d(_)
Sprintf_d(number) ==
  IF number < 10 THEN <<number>>
  ELSE Append(Sprintf_d(number \div 10), number % 10)

\* ----------------------------------------------------------------- state
VARIABLES
  pc,          \* AddGrid's position: idle, start, vlines, hlines, rows,
               \* cells, encode, done
  width,       \* bounds.Max.X of the image
  height,      \* bounds.Max.Y of the image
  config,      \* the Config: CellSize, LineWidth, NumberScale
  overlay,     \* the RGBA canvas: pixel -> the layer that painted it last
  calls,       \* every coordinate handed to overlay.Set / img.Set so far
  x,           \* loop variable of the vertical lines
  y,           \* loop variable of the horizontal lines
  gridX,       \* column of the numbering loop
  gridY,       \* row of the numbering loop
  cellNumber,  \* the next sequential number
  cells,       \* the cells numbered so far, in order: number, grid position,
               \* center and whether the label was drawn
  result,      \* what AddGrid returned: none, png, error
  imageWidth,  \* the imageWidth argument of the mapper calls
  cellSize,    \* the cellSize argument of the mapper calls
  c2p,         \* the last CellToPixel call: argument and return value
  p2c          \* the last PixelToCell call: arguments and return value

vars == <<pc, width, height, config, overlay, calls, x, y, gridX, gridY,
          cellNumber, cells, result, imageWidth, cellSize, c2p, p2c>>

renderVars == <<pc, width, height, config, overlay, calls, x, y, gridX, gridY,
                cellNumber, cells, result>>

mapperVars == <<imageWidth, cellSize, c2p, p2c>>

\* The Config fields the drawing reads.  The three colours are opaque values
\* that are only copied into pixels; overlay names the layer instead.
Configs ==
  [CellSize : 1..MaxCellSize, LineWidth : 0..MaxLineWidth,
   NumberScale : 1..MaxNumberScale]

NoCall == [called |-> FALSE]

\* ------------------------------------------------------- coordinate mapper
Panic == [panic |-> TRUE]

\* CellToPixel with the guard off by one: cell 0 is rejected too.
CellToPixel_RejectsZero(cellNumber_, imageWidth_, cellSize_) ==
  IF cellNumber_ <= 0
  THEN [panic |-> FALSE, x |-> 0, y |-> 0, err |-> "invalid cell number"]
  ELSE IF cellSize_ = 0 THEN Panic
  ELSE
    LET quotient == GoDiv(imageWidth_, cellSize_)
        columnsPerRow == IF quotient = 0 THEN 1 ELSE quotient
        gX == GoMod(cellNumber_, columnsPerRow)
        gY == GoDiv(cellNumber_, columnsPerRow)
        pixelX == gX * cellSize_ + GoDiv(cellSize_, 2)
        pixelY == gY * cellSize_ + GoDiv(cellSize_, 2)
    IN  [panic |-> FALSE, x |-> pixelX, y |-> pixelY, err |-> "nil"]

\* CellToPixel counting a partial last column as a column.
CellToPixel_CeilColumns(cellNumber_, imageWidth_, cellSize_) ==
  IF cellNumber_ < 0
  THEN [panic |-> FALSE, x |-> 0, y |-> 0, err |-> "invalid cell number"]
  ELSE IF cellSize_ = 0 THEN Panic
  ELSE
    LET quotient == GoDiv(imageWidth_ + cellSize_ - 1, cellSize_)
        columnsPerRow == IF quotient = 0 THEN 1 ELSE quotient
        gX == GoMod(cellNumber_, columnsPerRow)
        gY == GoDiv(cellNumber_, columnsPerRow)
        pixelX == gX * cellSize_ + GoDiv(cellSize_, 2)
        pixelY == gY * cellSize_ + GoDiv(cellSize_, 2)
    IN  [panic |-> FALSE, x |-> pixelX, y |-> pixelY, err |-> "nil"]

\* CellToPixel: the center of cell cellNumber, or an error.
CellToPixel(cellNumber_, imageWidth_, cellSize_) ==
  IF cellNumber_ < 0
  THEN [panic |-> FALSE, x |-> 0, y |-> 0, err |-> "invalid cell number"]
  ELSE IF cellSize_ = 0 THEN Panic
  ELSE
    LET quotient == GoDiv(imageWidth_, cellSize_)
        columnsPerRow == IF quotient = 0 THEN 1 ELSE quotient
        gX == GoMod(cellNumber_, columnsPerRow)
        gY == GoDiv(cellNumber_, columnsPerRow)
        pixelX == gX * cellSize_ + GoDiv(cellSize_, 2)
        pixelY == gY * cellSize_ + GoDiv(cellSize_, 2)
    IN  [panic |-> FALSE, x |-> pixelX, y |-> pixelY, err |-> "nil"]

\* PixelToCell counting a partial last column as a column.
PixelToCell_CeilColumns(px, py, imageWidth_, cellSize_) ==
  IF cellSize_ = 0 THEN Panic
  ELSE
    LET quotient == GoDiv(imageWidth_ + cellSize_ - 1, cellSize_)
        columnsPerRow == IF quotient = 0 THEN 1 ELSE quotient
        gX == GoDiv(px, cellSize_)
        gY == GoDiv(py, cellSize_)
    IN  [panic |-> FALSE, cell |-> gY * columnsPerRow + gX]

\* PixelToCell clamping x to the last column of the image.
PixelToCell_ClampsX(px, py, imageWidth_, cellSize_) ==
  IF cellSize_ = 0 THEN Panic
  ELSE
    LET quotient == GoDiv(imageWidth_, cellSize_)
        columnsPerRow == IF quotient = 0 THEN 1 ELSE quotient
        gX == GoDiv(px, cellSize_)
        gY == GoDiv(py, cellSize_)
        clamped == IF gX >= columnsPerRow THEN columnsPerRow - 1 ELSE gX
    IN  [panic |-> FALSE, cell |-> gY * columnsPerRow + clamped]

\* PixelToCell: the number of the cell that holds pixel (px, py).
PixelToCell(px, py, imageWidth_, cellSize_) ==
  IF cellSize_ = 0 THEN Panic
  ELSE
    LET quotient == GoDiv(imageWidth_, cellSize_)
        columnsPerRow == IF quotient = 0 THEN 1 ELSE quotient
        gX == GoDiv(px, cellSize_)
        gY == GoDiv(py, cellSize_)
    IN  [panic |-> FALSE, cell |-> gY * columnsPerRow + gX]

\* ------------------------------------------------------------ digit glyphs
\* The 5x7 bitmap of each digit, indexed by digit + 1; "#" is a lit pixel.
patterns ==
  <<
    \* '0'
    << <<" ", "#", "#", "#", " ">>,
       <<"#", " ", " ", " ", "#">>,
       <<"#", " ", " ", " ", "#">>,
       <<"#", " ", " ", " ", "#">>,
       <<"#", " ", " ", " ", "#">>,
       <<"#", " ", " ", " ", "#">>,
       <<" ", "#", "#", "#", " ">> >>,
    \* '1'
    << <<" ", " ", "#", " ", " ">>,
       <<" ", "#", "#", " ", " ">>,
       <<" ", " ", "#", " ", " ">>,
       <<" ", " ", "#", " ", " ">>,
       <<" ", " ", "#", " ", " ">>,
       <<" ", " ", "#", " ", " ">>,
       <<"#", "#", "#", "#", "#">> >>,
    \* '2'
    << <<" ", "#", "#", "#", " ">>,
       <<"#", " ", " ", " ", "#">>,
       <<" ", " ", " ", " ", "#">>,
       <<" ", " ", " ", "#", " ">>,
       <<" ", " ", "#", " ", " ">>,
       <<" ", "#", " ", " ", " ">>,
       <<"#", "#", "#", "#", "#">> >>,
    \* '3'
    << <<" ", "#", "#", "#", " ">>,
       <<"#", " ", " ", " ", "#">>,
       <<" ", " ", " ", " ", "#">>,
       <<" ", " ", "#", "#", " ">>,
       <<" ", " ", " ", " ", "#">>,
       <<"#", " ", " ", " ", "#">>,
       <<" ", "#", "#", "#", " ">> >>,
    \* '4'
    << <<" ", " ", " ", "#", " ">>,
       <<" ", " ", "#", "#", " ">>,
       <<" ", "#", " ", "#", " ">>,
       <<"#", " ", " ", "#", " ">>,
       <<"#", "#", "#", "#", "#">>,
       <<" ", " ", " ", "#", " ">>,
       <<" ", " ", " ", "#", " ">> >>,
    \* '5'
    << <<"#", "#", "#", "#", "#">>,
       <<"#", " ", " ", " ", " ">>,
       <<"#", " ", " ", " ", " ">>,
       <<"#", "#", "#", "#", " ">>,
       <<" ", " ", " ", " ", "#">>,
       <<"#", " ", " ", " ", "#">>,
       <<" ", "#", "#", "#", " ">> >>,
    \* '6'
    << <<" ", "#", "#", "#", " ">>,
       <<"#", " ", " ", " ", "#">>,
       <<"#", " ", " ", " ", " ">>,
       <<"#", "#", "#", "#", " ">>,
       <<"#", " ", " ", " ", "#">>,
       <<"#", " ", " ", " ", "#">>,
       <<" ", "#", "#", "#", " ">> >>,
    \* '7'
    << <<"#", "#", "#", "#", "#">>,
       <<" ", " ", " ", " ", "#">>,
       <<" ", " ", " ", "#", " ">>,
       <<" ", " ", "#", " ", " ">>,
       <<" ", "#", " ", " ", " ">>,
       <<" ", "#", " ", " ", " ">>,
       <<" ", "#", " ", " ", " ">> >>,
    \* '8'
    << <<" ", "#", "#", "#", " ">>,
       <<"#", " ", " ", " ", "#">>,
       <<"#", " ", " ", " ", "#">>,
       <<" ", "#", "#", "#", " ">>,
       <<"#", " ", " ", " ", "#">>,
       <<"#", " ", " ", " ", "#">>,
       <<" ", "#", "#", "#", " ">> >>,
    \* '9'
    << <<" ", "#", "#", "#", " ">>,
       <<"#", " ", " ", " ", "#">>,
       <<"#", " ", " ", " ", "#">>,
       <<" ", "#", "#", "#", "#">>,
       <<" ", " ", " ", " ", "#">>,
       <<"#", " ", " ", " ", "#">>,
       <<" ", "#", "#", "#", " ">> >>
  >>

\* getDigitPattern: the bitmap of a digit, empty for anything else.
getDigitPattern(digit) ==
  IF digit \in 0..9 THEN patterns[digit + 1] ELSE <<>>

\* ----------------------------------------------------------------- canvas
\* The pixels of an image whose bounds are (0,0)-(w,h).
Canvas(w, h) == (0..(w - 1)) \X (0..(h - 1))

\* Set on every point of pts: RGBA.Set ignores a point outside the canvas.
Paint(ov, pts, layer) ==
  [p \in pts \cap DOMAIN ov |-> layer] @@ ov

\* The band of one vertical grid line at column lx: LineWidth pixels,
\* extending leftwards from lx, over the full height.
VerticalLinePixels(lx) ==
  { <<lx - i, ly>> : i \in {j \in 0..(config.LineWidth - 1) : lx - j >= 0},
                     ly \in 0..(height - 1) }

\* The band of one horizontal grid line at row ly, extending upwards.
HorizontalLinePixels(ly) ==
  { <<lx, ly - i>> : lx \in 0..(width - 1),
                     i \in {j \in 0..(config.LineWidth - 1) : ly - j >= 0} }

\* ------------------------------------------------------------------ labels
\* drawLargeNumber's size settings and the top-left corner of the block it
\* centers on (cx, cy).
LabelBox(cx, cy, number) ==
  LET numStr == Sprintf_d(number)
      digitWidth == 5 * config.NumberScale
      digitHeight == 7 * config.NumberScale
      spacing == 2 * config.NumberScale
      padding == 2 * config.NumberScale
      totalWidth == Len(numStr) * digitWidth + (Len(numStr) - 1) * spacing
                    + 2 * padding
      totalHeight == digitHeight + 2 * padding
  IN  [numStr |-> numStr, digitWidth |-> digitWidth, spacing |-> spacing,
       padding |-> padding, totalWidth |-> totalWidth,
       totalHeight |-> totalHeight,
       startX |-> cx - GoDiv(totalWidth, 2),
       startY |-> cy - GoDiv(totalHeight, 2)]

\* BackgroundPixels clipped at the right and bottom edges only.
BackgroundPixels_NoLowerClip(cx, cy, number) ==
  LET b == LabelBox(cx, cy, number)
  IN  { p \in (b.startX..(b.startX + b.totalWidth - 1))
                 \X (b.startY..(b.startY + b.totalHeight - 1)) :
          p[1] < width /\ p[2] < height }

\* The pixels drawLargeNumber sets to the background colour.
BackgroundPixels(cx, cy, number) ==
  LET b == LabelBox(cx, cy, number)
  IN  { p \in (b.startX..(b.startX + b.totalWidth - 1))
                 \X (b.startY..(b.startY + b.totalHeight - 1)) :
          p[1] >= 0 /\ p[2] >= 0 /\ p[1] < width /\ p[2] < height }

\* The pixels drawLargeNumber sets to the number colour: a NumberScale square
\* for every "#" of every digit's pattern.
DigitPixels(cx, cy, number) ==
  LET b == LabelBox(cx, cy, number)
      scale == config.NumberScale
      Block(i, row, col) ==
        LET digitX == b.startX + b.padding + i * (b.digitWidth + b.spacing)
            digitY == b.startY + b.padding
        IN  { <<digitX + col * scale + sx, digitY + row * scale + sy>> :
                sx \in 0..(scale - 1), sy \in 0..(scale - 1) }
      Lit ==
        { t \in (0..(Len(b.numStr) - 1)) \X (0..6) \X (0..4) :
            LET pattern == getDigitPattern(b.numStr[t[1] + 1])
            IN  /\ t[2] + 1 \in DOMAIN pattern
                /\ t[3] + 1 \in DOMAIN pattern[t[2] + 1]
                /\ pattern[t[2] + 1][t[3] + 1] = "#" }
  IN  { p \in UNION { Block(t[1], t[2], t[3]) : t \in Lit } :
          p[1] >= 0 /\ p[2] >= 0 /\ p[1] < width /\ p[2] < height }

\* ----------------------------------------------------------------- AddGrid
\* CellCenter without the half cell: the top-left corner of the cell.
CellCenter_TopLeft(g) == g * config.CellSize

\* The center coordinate of grid column or row g.
CellCenter(g) == g * config.CellSize + GoDiv(config.CellSize, 2)

\* The loop conditions of the numbering.
MoreRows == gridY * config.CellSize < height

\* MoreColumns counting whole cells only.
MoreColumns_WholeCells == (gridX + 1) * config.CellSize <= width

\* MoreColumns with <= for <.
MoreColumns_Inclusive == gridX * config.CellSize <= width

MoreColumns == gridX * config.CellSize < width

\* The label is drawn only when its center is inside the image.
CenterInBounds(centerX, centerY) == centerX < width /\ centerY < height

Init ==
  /\ width \in 0..MaxWidth
  /\ height \in 0..MaxHeight
  /\ config \in Configs
  /\ pc = "start"
  /\ overlay = <<>>
  /\ calls = {}
  /\ x = 0
  /\ y = 0
  /\ gridX = 0
  /\ gridY = 0
  /\ cellNumber = 0
  /\ cells = <<>>
  /\ result = "none"
  /\ imageWidth = 0
  /\ cellSize = 0
  /\ c2p = NoCall
  /\ p2c = NoCall

\* overlay := image.NewRGBA(bounds); draw.Draw copies the image into it.
NewOverlay ==
  /\ pc = "start"
  /\ overlay' = [p \in Canvas(width, height) |-> "image"]
  /\ x' = config.CellSize
  /\ pc' = "vlines"
  /\ UNCHANGED <<width, height, config, calls, y, gridX, gridY, cellNumber,
                 cells, result>>
  /\ UNCHANGED mapperVars

DrawVerticalLine ==
  /\ pc = "vlines"
  /\ x < width
  /\ overlay' = Paint(overlay, VerticalLinePixels(x), "grid")
  /\ calls' = calls \cup VerticalLinePixels(x)
  /\ x' = x + config.CellSize
  /\ UNCHANGED <<pc, width, height, config, y, gridX, gridY, cellNumber,
                 cells, result>>
  /\ UNCHANGED mapperVars

VerticalLinesDone ==
  /\ pc = "vlines"
  /\ ~(x < width)
  /\ y' = config.CellSize
  /\ pc' = "hlines"
  /\ UNCHANGED <<width, height, config, overlay, calls, x, gridX, gridY,
                 cellNumber, cells, result>>
  /\ UNCHANGED mapperVars

DrawHorizontalLine ==
  /\ pc = "hlines"
  /\ y < height
  /\ overlay' = Paint(overlay, HorizontalLinePixels(y), "grid")
  /\ calls' = calls \cup HorizontalLinePixels(y)
  /\ y' = y + config.CellSize
  /\ UNCHANGED <<pc, width, height, config, x, gridX, gridY, cellNumber,
                 cells, result>>
  /\ UNCHANGED mapperVars

HorizontalLinesDone ==
  /\ pc = "hlines"
  /\ ~(y < height)
  /\ cellNumber' = 0
  /\ gridY' = 0
  /\ pc' = "rows"
  /\ UNCHANGED <<width, height, config, overlay, calls, x, y, gridX, cells,
                 result>>
  /\ UNCHANGED mapperVars

\* The outer loop's test succeeds: the row's inner loop starts at column 0.
StartRow ==
  /\ pc = "rows"
  /\ MoreRows
  /\ gridX' = 0
  /\ pc' = "cells"
  /\ UNCHANGED <<width, height, config, overlay, calls, x, y, gridY,
                 cellNumber, cells, result>>
  /\ UNCHANGED mapperVars

\* One iteration of the inner loop: the cell gets cellNumber, and its label
\* when the center is inside the image.
NumberCell ==
  /\ pc = "cells"
  /\ MoreColumns
  /\ LET centerX == CellCenter(gridX)
         centerY == CellCenter(gridY)
         drawn == CenterInBounds(centerX, centerY)
         bg == BackgroundPixels(centerX, centerY, cellNumber)
         dg == DigitPixels(centerX, centerY, cellNumber)
     IN  /\ overlay' = IF drawn
                       THEN Paint(Paint(overlay, bg, "numberBG"), dg, "number")
                       ELSE overlay
         /\ calls' = IF drawn THEN calls \cup bg \cup dg ELSE calls
         /\ cells' = Append(cells, [number |-> cellNumber, gridX |-> gridX,
                                    gridY |-> gridY, centerX |-> centerX,
                                    centerY |-> centerY, drawn |-> drawn])
  /\ cellNumber' = cellNumber + 1
  /\ gridX' = gridX + 1
  /\ UNCHANGED <<pc, width, height, config, x, y, gridY, result>>
  /\ UNCHANGED mapperVars

\* The inner loop's test fails: on to the next row.
EndRow ==
  /\ pc = "cells"
  /\ ~MoreColumns
  /\ gridY' = gridY + 1
  /\ pc' = "rows"
  /\ UNCHANGED <<width, height, config, overlay, calls, x, y, gridX,
                 cellNumber, cells, result>>
  /\ UNCHANGED mapperVars

\* The outer loop's test fails: the numbering is complete.
CellsDone ==
  /\ pc = "rows"
  /\ ~MoreRows
  /\ pc' = "encode"
  /\ UNCHANGED <<width, height, config, overlay, calls, x, y, gridX, gridY,
                 cellNumber, cells, result>>
  /\ UNCHANGED mapperVars

\* png.Encode into a bytes.Buffer: the buffer never fails a write, and the
\* encoder rejects only an image without pixels.
Encode ==
  /\ pc = "encode"
  /\ result' = IF width <= 0 \/ height <= 0 THEN "error" ELSE "png"
  /\ pc' = "done"
  /\ UNCHANGED <<width, height, config, overlay, calls, x, y, gridX, gridY,
                 cellNumber, cells>>
  /\ UNCHANGED mapperVars

Next ==
  \/ NewOverlay
  \/ DrawVerticalLine
  \/ VerticalLinesDone
  \/ DrawHorizontalLine
  \/ HorizontalLinesDone
  \/ StartRow
  \/ NumberCell
  \/ EndRow
  \/ CellsDone
  \/ Encode

Spec == Init /\ [][Next]_vars

\* ------------------------------------------------------------ mapper calls
\* The arguments the calls are tried on: the small ranges, the values of the
\* documented examples, and one cell number far beyond any image.
LargeCellNumber == 1000000
CellNumbers == ((-2)..MaxCellNumber) \cup {LargeCellNumber}
ImageWidths == ((-1)..MaxWidth) \cup {100, 600}
CellSizes == ((-1)..MaxCellSize) \cup {50, 100}
Coords == ((-1)..MaxCoord) \cup {50, 150, 250}

\* A call that panicked ended the program.
Panicked == (c2p.called /\ c2p.ret.panic) \/ (p2c.called /\ p2c.ret.panic)

MapperInit ==
  /\ imageWidth \in ImageWidths
  /\ cellSize \in CellSizes
  /\ c2p = NoCall
  /\ p2c = NoCall
  /\ pc = "idle"
  /\ width = 0
  /\ height = 0
  /\ config = [CellSize |-> 1, LineWidth |-> 0, NumberScale |-> 1]
  /\ overlay = <<>>
  /\ calls = {}
  /\ x = 0
  /\ y = 0
  /\ gridX = 0
  /\ gridY = 0
  /\ cellNumber = 0
  /\ cells = <<>>
  /\ result = "none"

\* x, y, err := CellToPixel(n, imageWidth, cellSize)
CallCellToPixel ==
  /\ ~Panicked
  /\ \E n \in CellNumbers :
       c2p' = [called |-> TRUE, cellNumber |-> n,
               ret |-> CellToPixel(n, imageWidth, cellSize)]
  /\ p2c' = NoCall
  /\ UNCHANGED <<imageWidth, cellSize>>
  /\ UNCHANGED renderVars

\* cellNum := PixelToCell(px, py, imageWidth, cellSize)
CallPixelToCell ==
  /\ ~Panicked
  /\ \E px \in Coords, py \in Coords :
       p2c' = [called |-> TRUE, x |-> px, y |-> py,
               ret |-> PixelToCell(px, py, imageWidth, cellSize)]
  /\ c2p' = NoCall
  /\ UNCHANGED <<imageWidth, cellSize>>
  /\ UNCHANGED renderVars

\* The pixel CellToPixel returned without an error is handed to PixelToCell.
RoundTrip ==
  /\ ~Panicked
  /\ c2p.called
  /\ c2p.ret.err = "nil"
  /\ p2c' = [called |-> TRUE, x |-> c2p.ret.x, y |-> c2p.ret.y,
             ret |-> PixelToCell(c2p.ret.x, c2p.ret.y, imageWidth, cellSize)]
  /\ UNCHANGED <<imageWidth, cellSize, c2p>>
  /\ UNCHANGED renderVars

MapperNext ==
  \/ CallCellToPixel
  \/ CallPixelToCell
  \/ RoundTrip

MapperSpec == MapperInit /\ [][MapperNext]_vars

\* ------------------------------------------------------------- properties
Max(a, b) == IF a >= b THEN a ELSE b

\* ceil(a / b) for a >= 0, b >= 1
Ceil(a, b) == (a + b - 1) \div b

\* The value a call returns when it neither fails nor panics.
Cell(n) == [panic |-> FALSE, cell |-> n]
Pixel(px, py) == [panic |-> FALSE, x |-> px, y |-> py, err |-> "nil"]

\* The numbering loop of AddGrid is over.
Enumerated == pc \in {"encode", "done"}

\* C1: whenever AddGrid draws the label of the cell numbered N at
\* (centerX, centerY), PixelToCell(centerX, centerY, width, CellSize) is N.
C1_NumberingConsistency ==
  \A i \in 1..Len(cells) :
    cells[i].drawn =>
      PixelToCell(cells[i].centerX, cells[i].centerY, width, config.CellSize)
        = Cell(cells[i].number)

\* C2: for every cell number N that AddGrid enumerates,
\* CellToPixel(N, width, CellSize) is the center AddGrid computes for the
\* cell it numbers N.
C2_CellToPixelMatchesRenderer ==
  \A i \in 1..Len(cells) :
    CellToPixel(cells[i].number, width, config.CellSize)
      = Pixel(cells[i].centerX, cells[i].centerY)

\* C3: round trip: for cellNumber >= 0, imageWidth >= 0 and cellSize > 0, when
\* CellToPixel returns (x, y) with x < imageWidth, PixelToCell of (x, y) is
\* cellNumber again.
C3_RoundTrip ==
  ( /\ c2p.called
    /\ p2c.called
    /\ c2p.cellNumber >= 0
    /\ imageWidth >= 0
    /\ cellSize > 0
    /\ c2p.ret.x < imageWidth )
  => p2c.ret = Cell(c2p.cellNumber)

C3_Witness ==
  /\ c2p.called
  /\ p2c.called
  /\ c2p.cellNumber >= 3
  /\ cellSize > 1
  /\ imageWidth >= 2 * cellSize
  /\ ~c2p.ret.panic
  /\ c2p.ret.x < imageWidth
  /\ c2p.ret.x > cellSize
  /\ c2p.ret.y > cellSize
  /\ p2c.ret = Cell(c2p.cellNumber)

\* C4: CellToPixel returns an error exactly when cellNumber < 0, whatever
\* imageWidth and cellSize are, and then the coordinates are (0, 0); for
\* cellNumber >= 0 and cellSize >= 1 it returns without an error, however
\* large cellNumber is.
C4_ErrorIffNegative ==
  c2p.called =>
    /\ (~c2p.ret.panic /\ c2p.ret.err # "nil") <=> (c2p.cellNumber < 0)
    /\ c2p.cellNumber < 0 =>
         /\ ~c2p.ret.panic
         /\ c2p.ret.x = 0
         /\ c2p.ret.y = 0
    /\ (c2p.cellNumber >= 0 /\ cellSize >= 1) =>
         /\ ~c2p.ret.panic
         /\ c2p.ret.err = "nil"

C4_Witness ==
  /\ c2p.called
  /\ c2p.cellNumber = -1
  /\ cellSize = 0
  /\ imageWidth = 100
  /\ c2p.ret = [panic |-> FALSE, x |-> 0, y |-> 0,
                err |-> "invalid cell number"]

\* C5: for cellNumber >= 0, imageWidth >= 0 and cellSize >= 1, CellToPixel
\* returns (col*cellSize + cellSize/2, row*cellSize + cellSize/2) with
\* columnsPerRow = max(1, imageWidth / cellSize), col = cellNumber mod
\* columnsPerRow and row = cellNumber / columnsPerRow; CellToPixel(0,100,50) is
\* (25,25), CellToPixel(1,100,50) is (75,25), CellToPixel(2,100,50) is (25,75).
C5_CellToPixelFormula ==
  (c2p.called /\ c2p.cellNumber >= 0 /\ imageWidth >= 0 /\ cellSize >= 1) =>
    LET columnsPerRow == Max(1, imageWidth \div cellSize)
        col == c2p.cellNumber % columnsPerRow
        row == c2p.cellNumber \div columnsPerRow
    IN  /\ c2p.ret = Pixel(col * cellSize + cellSize \div 2,
                           row * cellSize + cellSize \div 2)
        /\ (imageWidth = 100 /\ cellSize = 50) =>
             /\ c2p.cellNumber = 0 => c2p.ret = Pixel(25, 25)
             /\ c2p.cellNumber = 1 => c2p.ret = Pixel(75, 25)
             /\ c2p.cellNumber = 2 => c2p.ret = Pixel(25, 75)

C5_Witness ==
  /\ c2p.called
  /\ c2p.cellNumber = 2
  /\ imageWidth = 100
  /\ cellSize = 50
  /\ c2p.ret = Pixel(25, 75)

\* C6: for x >= 0, y >= 0, imageWidth >= 0 and cellSize >= 1, PixelToCell
\* returns (y / cellSize) * max(1, imageWidth / cellSize) + (x / cellSize),
\* whether or not x < imageWidth; PixelToCell(250, 150, 600, 100) is 8.
C6_PixelToCellFormula ==
  (p2c.called /\ p2c.x >= 0 /\ p2c.y >= 0 /\ imageWidth >= 0 /\ cellSize >= 1)
  =>
    /\ p2c.ret = Cell((p2c.y \div cellSize) * Max(1, imageWidth \div cellSize)
                      + (p2c.x \div cellSize))
    /\ (p2c.x = 250 /\ p2c.y = 150 /\ imageWidth = 600 /\ cellSize = 100) =>
         p2c.ret = Cell(8)

C6_Witness ==
  /\ p2c.called
  /\ ~c2p.called
  /\ p2c.x = 250
  /\ p2c.y = 150
  /\ imageWidth = 600
  /\ cellSize = 100
  /\ p2c.ret = Cell(8)

\* The label block of cell c reaches past an edge of the image.
LabelOverhangs(c) ==
  LET b == LabelBox(c.centerX, c.centerY, c.number)
  IN  \/ b.startX < 0
      \/ b.startY < 0
      \/ b.startX + b.totalWidth > width
      \/ b.startY + b.totalHeight > height

\* C7: every pixel write of AddGrid (grid lines, label backgrounds, digits)
\* targets a coordinate with 0 <= x < width and 0 <= y < height, the canvas
\* keeps the bounds of the image, and AddGrid returns no error for an image
\* with pixels, also when a label block reaches past the edges.
C7_Clipping ==
  /\ \A p \in calls : 0 <= p[1] /\ p[1] < width /\ 0 <= p[2] /\ p[2] < height
  /\ pc \notin {"idle", "start"} => DOMAIN overlay = Canvas(width, height)
  /\ (pc = "done" /\ width >= 1 /\ height >= 1) => result = "png"

C7_Witness ==
  /\ pc = "done"
  /\ result = "png"
  /\ config.LineWidth >= 2
  /\ width > config.CellSize
  /\ height > config.CellSize
  /\ \E i \in 1..Len(cells) :
       /\ cells[i].drawn
       /\ cells[i].number >= 10
       /\ LabelOverhangs(cells[i])
  /\ \E i \in 1..Len(cells) :
       /\ cells[i].drawn
       /\ LabelOverhangs(cells[i])
       /\ DigitPixels(cells[i].centerX, cells[i].centerY, cells[i].number)
            # {}
       /\ DigitPixels(cells[i].centerX, cells[i].centerY, cells[i].number)
            \subseteq calls

\* cellSize >= both image dimensions, for an image with pixels.
Degenerate ==
  /\ width >= 1
  /\ height >= 1
  /\ config.CellSize >= width
  /\ config.CellSize >= height

\* C8 as stated: with cellSize >= width and cellSize >= height exactly one
\* cell, number 0, is enumerated, and a label that is drawn is centered at
\* the image center (width/2, height/2).
C8_LabelAtImageCenter ==
  (Degenerate /\ Enumerated) =>
    /\ Len(cells) = 1
    /\ cells[1].number = 0
    /\ cells[1].drawn =>
         /\ cells[1].centerX = width \div 2
         /\ cells[1].centerY = height \div 2

\* C8 amended: with cellSize >= width and cellSize >= height exactly one
\* cell, number 0, is enumerated; its label is drawn exactly when
\* cellSize/2 < width and cellSize/2 < height, and then it is centered at the
\* center of the cell, (cellSize/2, cellSize/2), and covers that pixel.
C8_LabelAtCellCenter ==
  (Degenerate /\ Enumerated) =>
    /\ Len(cells) = 1
    /\ cellNumber = 1
    /\ cells[1].number = 0
    /\ cells[1].drawn <=> ( /\ config.CellSize \div 2 < width
                            /\ config.CellSize \div 2 < height )
    /\ cells[1].drawn =>
         /\ cells[1].centerX = config.CellSize \div 2
         /\ cells[1].centerY = config.CellSize \div 2
         /\ overlay[<<cells[1].centerX, cells[1].centerY>>]
              \in {"numberBG", "number"}

C8_Witness ==
  /\ Degenerate
  /\ pc = "done"
  /\ Len(cells) = 1
  /\ cells[1].drawn
  /\ config.CellSize > width
  /\ cells[1].centerX # width \div 2
  /\ cells[1].centerX = config.CellSize \div 2

\* What C9 says of every state: the cells numbered so far carry 0, 1, 2, ...
\* in row-major order over ceil(width/cellSize) columns, labelled or not, and
\* once the loop is over there are ceil(height/cellSize) * ceil(width/cellSize)
\* of them.
RowMajorNumbering ==
  (width >= 1 /\ height >= 1) =>
    LET columns == Ceil(width, config.CellSize)
        rows == Ceil(height, config.CellSize)
    IN  /\ Len(cells) = cellNumber
        /\ \A i \in 1..Len(cells) :
             /\ cells[i].number = i - 1
             /\ cells[i].gridX = (i - 1) % columns
             /\ cells[i].gridY = (i - 1) \div columns
        /\ Enumerated => cellNumber = rows * columns

\* The numbering loop is running.
InNumberingLoop == pc \in {"rows", "cells"}

\* The steps the numbering loop still has to take: per row the start of the
\* row, one step per column and the end of the row, then the exit of the loop.
StepsLeft ==
  LET columns == Ceil(width, config.CellSize)
      rows == Ceil(height, config.CellSize)
  IN  CASE pc = "rows" -> (rows - gridY) * (columns + 2) + 1
        [] pc = "cells" -> (columns - gridX) + 1
                           + (rows - gridY - 1) * (columns + 2) + 1
        [] OTHER -> 0

\* C9: for width, height, cellSize >= 1 the numbering loop terminates having
\* assigned exactly ceil(height/cellSize) * ceil(width/cellSize) consecutive
\* numbers 0, 1, 2, ... in row-major order, one per enumerated cell, also to
\* the cells whose label is skipped.  Termination: inside the loop a step is
\* always possible, and every step takes one off StepsLeft, which is never
\* negative and is 0 once the loop is left.
C9_EnumerationCount ==
  /\ [](RowMajorNumbering /\ StepsLeft >= 0 /\ (InNumberingLoop => ENABLED Next))
  /\ [][InNumberingLoop => StepsLeft' = StepsLeft - 1]_vars

C9_Witness ==
  /\ pc = "done"
  /\ Len(cells) >= 4
  /\ cellNumber = Len(cells)
  /\ \E i \in 1..(Len(cells) - 1) :
       /\ ~cells[i].drawn
       /\ cells[i + 1].drawn
       /\ cells[i + 1].number = cells[i].number + 1

\* C10: when width is a positive multiple of cellSize, or width < cellSize,
\* every cell AddGrid enumerates (labelled or not) has
\* number = gridY * max(1, width / cellSize) + gridX, CellToPixel of the number
\* is the renderer's center of the cell, and PixelToCell of that center is the
\* number.
C10_AgreementCondition ==
  ( /\ width >= 1
    /\ \/ width % config.CellSize = 0
       \/ width < config.CellSize )
  =>
    \A i \in 1..Len(cells) :
      /\ cells[i].number
           = cells[i].gridY * Max(1, width \div config.CellSize) + cells[i].gridX
      /\ CellToPixel(cells[i].number, width, config.CellSize)
           = Pixel(cells[i].centerX, cells[i].centerY)
      /\ PixelToCell(cells[i].centerX, cells[i].centerY, width, config.CellSize)
           = Cell(cells[i].number)

C10_Witness ==
  /\ pc = "done"
  /\ config.CellSize >= 2
  /\ width = 2 * config.CellSize
  /\ Len(cells) >= 4
  /\ \E i \in 1..Len(cells) : cells[i].gridY >= 1 /\ ~cells[i].drawn
  /\ \A i \in 1..Len(cells) :
       PixelToCell(cells[i].centerX, cells[i].centerY, width, config.CellSize)
         = Cell(cells[i].number)

====
